---- MODULE Spec2Model ----
(***************************************************************************)
(* regional_variants.py: the sqlite store of per-individual and global     *)
(* breadth counters, and the operations init, fill, fetch, draw, delete.   *)
(*                                                                         *)
(* A tree-sequence file is the record                                      *)
(*   [individuals : ts id -> [id, metadata, nodes],                        *)
(*    nodes       : node id -> [individual, population],                   *)
(*    variants    : sequence of [alleles, genotypes]]                      *)
(* with ts ids and node ids counted from 0 as tskit counts them.           *)
(* The sqlite database is modelled by two values: store, what is committed *)
(* in the database file, and conn, what the open connection of a running   *)
(* fill sees (store plus the statements of its uncommitted transaction).   *)
(***************************************************************************)
EXTENDS Integers, Sequences, FiniteSets, TLC

VARIABLES
    store,              \* the committed content of the database file
    conn,               \* the content as seen through fill's open connection
    pc,                 \* "idle" | "fill" (inside fill's scan) | "crashed"
    disk,               \* the chromosomes whose .trees file is in the extraction folder
    ts,                 \* fill: the loaded tree sequence
    individual_regions, \* fill: ts id -> region
    sql_ids,            \* fill: ts id -> id of the stored row
    vnum,               \* fill: index of the variant being scanned
    allele_index,       \* fill: index of the allele being scanned
    node_ids,           \* fill: sample nodes carrying the last processed allele
    individual_ids,     \* fill: deduplicated carriers of the last processed allele
    column,             \* fill: category of the last processed allele
    fetched,            \* what the last fetch returned
    image,              \* what the last draw rendered
    fills,              \* number of fills started
    filled              \* the file of the last committed fill

vars == <<store, conn, pc, disk, ts, individual_regions, sql_ids, vnum, allele_index,
          node_ids, individual_ids, column, fetched, image, fills, filled>>

\* ------------------------------------------------------------------ bounds
NumIndividuals == 4
MaxAlleles == 3
MaxFills == 2

\* ------------------------------------------------------- the sampled cohort
Names == 1..NumIndividuals

\* The name key an individual's metadata carries: one of three shapes.
MetadataKey(n) ==
    IF n % 3 = 1 THEN "sgdp_id" ELSE IF n % 3 = 2 THEN "sample" ELSE "individual_id"

\* The name of the population of the individual named n.
PopulationName(n) == n

\* ts.individuals() for individuals listed in the order names (ts id i is names[i]);
\* the individual with ts id 0 owns two sample nodes, the others one.
TsIndividuals(names) ==
    [i \in DOMAIN names |->
        [id |-> i,
         metadata |-> [key |-> MetadataKey(names[i]), value |-> names[i]],
         nodes |-> IF i = 0 THEN <<0, Cardinality(DOMAIN names)>> ELSE <<i>>]]

\* ts.node(j) for the nodes of those individuals.
TsNodes(names) ==
    LET k == Cardinality(DOMAIN names)
        owner(j) == IF j = k THEN 0 ELSE j
    IN  [j \in 0..k |-> [individual |-> owner(j),
                         population |-> PopulationName(names[owner(j)])]]

TreeSequence(names, variants) ==
    [individuals |-> TsIndividuals(names), nodes |-> TsNodes(names), variants |-> variants]

NoFile == [individuals |-> <<>>, nodes |-> <<>>, variants |-> <<>>]

\* ------------------------------------------------ populations.regions (table)
Source(metadata) ==
    IF metadata.key = "sgdp_id" THEN "SGDP"
    ELSE IF metadata.key = "sample" THEN "HGDP"
    ELSE "TGP"

\* (source, population name) -> region: populations 1 and 2 lie in region 1,
\* population p > 2 in region p - 1.
populations_regions ==
    [key \in {<<Source([key |-> MetadataKey(n), value |-> n]), PopulationName(n)>> : n \in Names}
        |-> IF key[2] <= 2 THEN 1 ELSE key[2] - 1]

\* ---------------------------------------------------------------- the store
Columns == {"all_regions", "some_regions", "one_region", "one_person"}

FreshStore == [individual |-> {}, num_regions |-> [c \in Columns |-> 0]]

Entry(i) ==
    [id |-> i.id, name |-> i.name, region |-> i.region,
     all_regions |-> 0, some_regions |-> 0, one_region |-> 0, one_person |-> 0]

\* INSERT INTO individual ... VALUES (?, ?, ?, 0, 0, 0, 0) for every entry.
InsertIndividuals(db, individuals) ==
    [db EXCEPT !.individual = @ \cup {Entry(individuals[n]) : n \in DOMAIN individuals}]

\* The row update without its WHERE clause: every row gains 1 per target.
UpdateIndividual_NoWhere(rows, col, targets) ==
    {[r EXCEPT ![col] = @ + Cardinality(DOMAIN targets)] : r \in rows}

\* UPDATE individual SET column=column+1 WHERE id=?, run once for every target id.
UpdateIndividual(rows, col, targets) ==
    {[r EXCEPT ![col] = @ + Cardinality({i \in DOMAIN targets : targets[i] = r.id})] : r \in rows}

\* The total update without its WHERE clause: every total gains 1.
UpdateNumRegions_NoWhere(totals, col) == [c \in DOMAIN totals |-> totals[c] + 1]

\* UPDATE num_regions SET number=number+1 WHERE name=?
UpdateNumRegions(totals, col) == [totals EXCEPT ![col] = @ + 1]

\* The database file under a connection that commits every statement.
AfterCrash_Autocommit(committed, pending) == pending

\* What the database file holds once the process has died inside fill: the one
\* commit is the last statement of fill, so the open transaction is dropped.
AfterCrash(committed, pending) == committed

\* ------------------------------------------------------------- fill: loading
\* The number of keys of the table, without set().
num_regions_keys == Cardinality(DOMAIN populations_regions)

num_regions == Cardinality({populations_regions[key] : key \in DOMAIN populations_regions})

IndividualName(metadata) == metadata.value

Region(file, individual) ==
    populations_regions[<<Source(individual.metadata),
                          file.nodes[individual.nodes[1]].population>>]

\* individual_regions: ts id -> region
IndividualRegions(file) ==
    [i \in DOMAIN file.individuals |-> Region(file, file.individuals[i])]

\* individuals: name -> {id, name, region}
Individuals(file) ==
    [n \in {IndividualName(file.individuals[i].metadata) : i \in DOMAIN file.individuals} |->
        LET i == CHOOSE j \in DOMAIN file.individuals :
                    IndividualName(file.individuals[j].metadata) = n
        IN  [id |-> i, name |-> n, region |-> Region(file, file.individuals[i])]]

\* The ts ids used as SQL ids whatever the store holds.
SqlIds_TsIds(rows, individuals) ==
    [i \in {individuals[n].id : n \in DOMAIN individuals} |-> i]

\* sql_ids: ts id -> SQL id, through the name when the store already has rows.
SqlIds(rows, individuals) ==
    IF rows # {}
    THEN [i \in {individuals[r.name].id : r \in rows} |->
            (CHOOSE r \in rows : individuals[r.name].id = i).id]
    ELSE [i \in {individuals[n].id : n \in DOMAIN individuals} |-> i]

\* The file's individuals written over the table on every fill.
WithIndividuals_Replace(db, individuals) ==
    [db EXCEPT !.individual = {Entry(individuals[n]) : n \in DOMAIN individuals}]

\* The rows after reconciliation: inserted only into an empty table.
WithIndividuals(db, individuals) ==
    IF db.individual # {} THEN db ELSE InsertIndividuals(db, individuals)

\* ------------------------------------------------------------ fill: the scan
Variant == ts.variants[vnum + 1]

Allele == Variant.alleles[allele_index + 1]

AtEnd == vnum >= Len(ts.variants)

\* The skip test without the test for an empty allele.
Skipped_IndexOnly(index, allele) == index = 0

\* Skip ancestral states and missing data.
Skipped(index, allele) == index = 0 \/ allele = ""

\* numpy.where(variant.genotypes == allele_index)[0]
NodeIds(variant, index) == {j \in DOMAIN variant.genotypes : variant.genotypes[j] = index}

IndividualIds(nodes) == {ts.nodes[j].individual : j \in nodes}

\* The classification with the region test ahead of the one-individual test.
Column_RegionFirst(ids, regions) ==
    LET region_count == Cardinality({regions[id] : id \in ids})
    IN  IF region_count = 1 THEN "one_region"
        ELSE IF Cardinality(ids) = 1 THEN "one_person"
        ELSE IF region_count < num_regions THEN "some_regions"
        ELSE "all_regions"

\* The category of an allele carried by the individuals ids.
Column(ids, regions) ==
    IF Cardinality(ids) = 1 THEN "one_person"
    ELSE LET region_count == Cardinality({regions[id] : id \in ids})
         IN  IF region_count = 1 THEN "one_region"
             ELSE IF region_count < num_regions THEN "some_regions"
             ELSE "all_regions"

\* Whether classifying and updating for the carriers ids raises KeyError.
RaisesKeyError(ids) ==
    \/ Cardinality(ids) # 1 /\ ~(ids \subseteq DOMAIN individual_regions)
    \/ ~(ids \subseteq DOMAIN sql_ids)

\* ------------------------------------------------------------------- fetch
RECURSIVE Sum(_, _)
Sum(rows, col) ==
    IF rows = {} THEN 0
    ELSE LET r == CHOOSE x \in rows : TRUE IN r[col] + Sum(rows \ {r}, col)

\* AVG(column) ... GROUP BY region: each average kept as <<sum, count>>.
Fetch(db) ==
    [region \in {r.region : r \in db.individual} |->
        LET group == {r \in db.individual : r.region = region}
        IN  [c \in Columns |-> <<Sum(group, c), Cardinality(group)>>]]

RECURSIVE Total(_, _)
Total(totals, names) ==
    IF names = {} THEN 0
    ELSE LET c == CHOOSE x \in names : TRUE IN totals[c] + Total(totals, names \ {c})

NoFetch == <<>>

NoImage == [bars |-> <<>>, individual_count |-> 0, variant_count |-> 0]

\* -------------------------------------------------------------- the files
ZeroBased(seq) == [i \in 0..(Len(seq) - 1) |-> seq[i + 1]]

\* The chromosome arms whose files the runs below hold, from the default list.
Chromosomes == {"1_p", "1_q", "2_p", "2_q"}

\* The tree sequence of each chromosome's file.
\* 1_p: individuals 1, 2, 3; an allele of 1 and 2, an empty allele, an allele of 2 and 3.
\* 1_q: the same individuals under other ts ids; an allele on both nodes of 3, one of 1 and 2.
\* 2_p: individual 4 as well; an allele of 1 and 2, then one of 4, 1 and 3.
\* 2_q: individuals 1, 2, 3 and no variant.
treeseq(chromosome) ==
    IF chromosome = "1_p" THEN
        TreeSequence(ZeroBased(<<1, 2, 3>>),
            << [alleles |-> <<"A", "T">>, genotypes |-> ZeroBased(<<1, 1, 0, 1>>)],
               [alleles |-> <<"G", "", "C">>, genotypes |-> ZeroBased(<<1, 2, 2, 0>>)] >>)
    ELSE IF chromosome = "1_q" THEN
        TreeSequence(ZeroBased(<<3, 1, 2>>),
            << [alleles |-> <<"A", "C">>, genotypes |-> ZeroBased(<<1, 0, 0, 1>>)],
               [alleles |-> <<"T", "G">>, genotypes |-> ZeroBased(<<0, 1, 1, 0>>)] >>)
    ELSE IF chromosome = "2_p" THEN
        TreeSequence(ZeroBased(<<4, 1, 2, 3>>),
            << [alleles |-> <<"A", "T">>, genotypes |-> ZeroBased(<<0, 1, 1, 0, 0>>)],
               [alleles |-> <<"C", "G">>, genotypes |-> ZeroBased(<<1, 1, 0, 1, 0>>)] >>)
    ELSE
        TreeSequence(ZeroBased(<<1, 2, 3>>), <<>>)

\* Every list of alleles of a site: the ancestral state, then up to MaxAlleles - 1
\* derived states, each a base or the empty string.
AlleleLists ==
    UNION {{<<"A">> \o derived : derived \in [1..m -> {"", "T"}]} : m \in 0..(MaxAlleles - 1)}

\* Every genotype array over the sample nodes 0..k for a list of alleles.
Genotypes(k, alleles) == [0..k -> 0..(Len(alleles) - 1)]

\* Every choice of individuals, listed by increasing name.
Headers ==
    UNION {{names \in [0..(k - 1) -> Names] :
                \A i, j \in 0..(k - 1) : i < j => names[i] < names[j]} : k \in 1..NumIndividuals}

\* ------------------------------------------------------------------ actions
Init ==
    /\ store = FreshStore
    /\ conn = FreshStore
    /\ pc = "idle"
    /\ disk = Chromosomes
    /\ ts = NoFile
    /\ individual_regions = <<>>
    /\ sql_ids = <<>>
    /\ vnum = 0
    /\ allele_index = 0
    /\ node_ids = {}
    /\ individual_ids = {}
    /\ column = "none"
    /\ fetched = NoFetch
    /\ image = NoImage
    /\ fills = 0
    /\ filled = NoFile

\* The locals of fill once it has returned.
Returned ==
    /\ ts' = NoFile
    /\ individual_regions' = <<>>
    /\ sql_ids' = <<>>
    /\ vnum' = 0
    /\ allele_index' = 0
    /\ node_ids' = {}
    /\ individual_ids' = {}
    /\ column' = "none"

\* init: remove the database file, create both tables, zero the four totals.
init ==
    /\ pc # "fill"
    /\ store' = FreshStore
    /\ conn' = FreshStore
    /\ pc' = "idle"
    /\ Returned
    /\ filled' = NoFile
    /\ UNCHANGED <<disk, fetched, image, fills>>

\* fill, up to the scan: load the file, resolve the individuals, reconcile the ids.
BeginFill(file) ==
    /\ pc # "fill"
    /\ \A r \in store.individual : r.name \in DOMAIN Individuals(file)
    /\ ts' = file
    /\ individual_regions' = IndividualRegions(file)
    /\ sql_ids' = SqlIds(store.individual, Individuals(file))
    /\ conn' = WithIndividuals(store, Individuals(file))
    /\ pc' = "fill"
    /\ vnum' = 0
    /\ allele_index' = 0
    /\ node_ids' = {}
    /\ individual_ids' = {}
    /\ column' = "none"
    /\ fills' = fills + 1
    /\ UNCHANGED <<store, disk, fetched, image, filled>>

\* fill of a chromosome's extracted file.
FillLoad(chromosome) ==
    /\ fills < MaxFills
    /\ chromosome \in disk
    /\ BeginFill(treeseq(chromosome))

\* fill of a file that delete has removed: tskit.load raises.
FillLoadError(chromosome) ==
    /\ pc # "fill"
    /\ fills < MaxFills
    /\ chromosome \notin disk
    /\ pc' = "crashed"
    /\ conn' = AfterCrash(store, conn)
    /\ store' = AfterCrash(store, conn)
    /\ Returned
    /\ fills' = fills + 1
    /\ UNCHANGED <<disk, fetched, image, filled>>

\* fill over a store holding a name the file lacks: individuals[row['name']] raises.
FillReconcileError(chromosome) ==
    /\ pc # "fill"
    /\ fills < MaxFills
    /\ chromosome \in disk
    /\ \E r \in store.individual : r.name \notin DOMAIN Individuals(treeseq(chromosome))
    /\ pc' = "crashed"
    /\ conn' = AfterCrash(store, conn)
    /\ store' = AfterCrash(store, conn)
    /\ Returned
    /\ fills' = fills + 1
    /\ UNCHANGED <<disk, fetched, image, filled>>

\* The scan moves to the next allele, or to the next variant's first.
Advance ==
    IF allele_index + 1 < Len(Variant.alleles)
    THEN vnum' = vnum /\ allele_index' = allele_index + 1
    ELSE vnum' = vnum + 1 /\ allele_index' = 0

\* An ancestral or empty allele: continue.
SkipAllele ==
    /\ pc = "fill"
    /\ ~AtEnd
    /\ Skipped(allele_index, Allele)
    /\ Advance
    /\ UNCHANGED <<store, conn, pc, disk, ts, individual_regions, sql_ids,
                   node_ids, individual_ids, column, fetched, image, fills, filled>>

\* Any other allele: find its carriers, classify, update the carriers' rows and the total.
ProcessAllele ==
    /\ pc = "fill"
    /\ ~AtEnd
    /\ ~Skipped(allele_index, Allele)
    /\ LET nodes == NodeIds(Variant, allele_index)
           ids == IndividualIds(nodes)
           col == Column(ids, individual_regions)
       IN  /\ ~RaisesKeyError(ids)
           /\ node_ids' = nodes
           /\ individual_ids' = ids
           /\ column' = col
           /\ conn' = [individual |-> UpdateIndividual(conn.individual, col,
                                          [i \in ids |-> sql_ids[i]]),
                       num_regions |-> UpdateNumRegions(conn.num_regions, col)]
    /\ Advance
    /\ UNCHANGED <<store, pc, disk, ts, individual_regions, sql_ids, fetched, image,
                   fills, filled>>

\* An allele with a carrier the store has no row for: sql_ids[id] raises, fill dies.
FillKeyError ==
    /\ pc = "fill"
    /\ ~AtEnd
    /\ ~Skipped(allele_index, Allele)
    /\ RaisesKeyError(IndividualIds(NodeIds(Variant, allele_index)))
    /\ pc' = "crashed"
    /\ conn' = AfterCrash(store, conn)
    /\ store' = AfterCrash(store, conn)
    /\ UNCHANGED <<disk, ts, individual_regions, sql_ids, vnum, allele_index,
                   node_ids, individual_ids, column, fetched, image, fills, filled>>

\* A file without variants: vnum is unbound after the loop, fill dies before its commit.
FillNameError ==
    /\ pc = "fill"
    /\ Len(ts.variants) = 0
    /\ pc' = "crashed"
    /\ conn' = AfterCrash(store, conn)
    /\ store' = AfterCrash(store, conn)
    /\ UNCHANGED <<disk, ts, individual_regions, sql_ids, vnum, allele_index,
                   node_ids, individual_ids, column, fetched, image, fills, filled>>

\* The scan is over: commit, close, fetch.
FillEnd ==
    /\ pc = "fill"
    /\ AtEnd
    /\ Len(ts.variants) > 0
    /\ store' = conn
    /\ conn' = conn
    /\ fetched' = Fetch(conn)
    /\ filled' = ts
    /\ pc' = "idle"
    /\ Returned
    /\ UNCHANGED <<disk, image, fills>>

\* fetch: the per-region averages of the committed rows.
fetch ==
    /\ pc # "fill"
    /\ fetched' = Fetch(store)
    /\ pc' = "idle"
    /\ Returned
    /\ UNCHANGED <<store, conn, disk, image, fills, filled>>

\* draw: fetch, then the bars and the two counts of the legend.
draw ==
    /\ pc # "fill"
    /\ fetched' = Fetch(store)
    /\ image' = [bars |-> Fetch(store),
                 individual_count |-> Cardinality(store.individual),
                 variant_count |-> Total(store.num_regions, Columns)]
    /\ pc' = "idle"
    /\ Returned
    /\ UNCHANGED <<store, conn, disk, fills, filled>>

\* delete: remove the chromosome's extracted file when it exists.
delete(chromosome) ==
    /\ pc # "fill"
    /\ chromosome \in disk
    /\ disk' = disk \ {chromosome}
    /\ pc' = "idle"
    /\ Returned
    /\ UNCHANGED <<store, conn, fetched, image, fills, filled>>

Next ==
    \/ init
    \/ \E chromosome \in Chromosomes : FillLoad(chromosome)
    \/ \E chromosome \in Chromosomes : FillLoadError(chromosome)
    \/ \E chromosome \in Chromosomes : FillReconcileError(chromosome)
    \/ SkipAllele
    \/ ProcessAllele
    \/ FillKeyError
    \/ FillNameError
    \/ FillEnd
    \/ fetch
    \/ draw
    \/ \E chromosome \in Chromosomes : delete(chromosome)

Spec == Init /\ [][Next]_vars

\* The first fill of a store, over every file of one variant: any choice of
\* individuals, any list of alleles, any genotype at any sample node.
ScanFill ==
    /\ pc # "fill"
    /\ store.individual = {}
    /\ \E names \in Headers : \E alleles \in AlleleLists :
        \E genotypes \in Genotypes(Cardinality(DOMAIN names), alleles) :
            BeginFill(TreeSequence(names, <<[alleles |-> alleles, genotypes |-> genotypes]>>))

NextScan ==
    \/ ScanFill
    \/ SkipAllele
    \/ ProcessAllele
    \/ FillEnd

SpecScan == Init /\ [][NextScan]_vars

\* ------------------------------------------------------------ properties
\* A step of the scan that processes the current allele: it is neither the
\* ancestral state nor empty, and fill is still running afterwards.
Processing ==
    /\ pc = "fill"
    /\ ~AtEnd
    /\ allele_index # 0
    /\ Allele # ""
    /\ pc' = "fill"

\* The individuals owning a sample node whose genotype is the current allele.
Carriers ==
    {ts.nodes[j].individual : j \in {n \in DOMAIN Variant.genotypes :
                                        Variant.genotypes[n] = allele_index}}

\* The region the table gives the individual with ts id i of the loaded file.
RegionOfId(i) ==
    populations_regions[<<Source(ts.individuals[i].metadata),
                          ts.nodes[ts.individuals[i].nodes[1]].population>>]

CarrierRegions == {RegionOfId(i) : i \in Carriers}

CarrierNames == {ts.individuals[i].metadata.value : i \in Carriers}

\* The regions of the loaded file's individuals.
DatasetRegions == {RegionOfId(i) : i \in DOMAIN ts.individuals}

\* The regions the table names.
KnownRegions == {populations_regions[key] : key \in DOMAIN populations_regions}

RowOf(db, id) == CHOOSE r \in db.individual : r.id = id

One(condition) == IF condition THEN 1 ELSE 0

\* C1: every processed allele gets one of the four categories, and every carrier's
\* row gains exactly 1 in that category's counter and nothing in the other three.
C1_OneCategoryPerCarrier ==
    [][Processing =>
        /\ column' \in Columns
        /\ \A i \in Carriers : \A c \in Columns :
              RowOf(conn', sql_ids[i])[c] = RowOf(conn, sql_ids[i])[c] + One(c = column')]_vars

\* C1 witness: an allele of two or more individuals has been processed and each
\* of them has 1 in its category.
C1_Witness ==
    /\ pc = "fill"
    /\ column \in Columns
    /\ Cardinality(individual_ids) >= 2
    /\ \A i \in individual_ids : RowOf(conn, sql_ids[i])[column] = 1

\* C2 as stated: carriers spanning every region of the loaded file's individuals
\* are classified all_regions.
C2_AllDatasetRegions ==
    [][(Processing /\ CarrierRegions = DatasetRegions) => column' = "all_regions"]_vars

\* C2 amended: two or more carriers spanning more than one region and every
\* region the table populations.regions names are classified all_regions.
C2_AllKnownRegions ==
    [][(/\ Processing
        /\ Cardinality(Carriers) > 1
        /\ Cardinality(CarrierRegions) > 1
        /\ CarrierRegions = KnownRegions) => column' = "all_regions"]_vars

\* C2 witness: an allele whose carriers cover every region of the table has been
\* classified all_regions.
C2_Witness ==
    /\ pc = "fill"
    /\ column = "all_regions"
    /\ {individual_regions[i] : i \in individual_ids} = KnownRegions

\* C3: an allele all of whose carrying nodes belong to one individual is
\* classified one_person.
C3_OnePerson ==
    [][(Processing /\ Cardinality(Carriers) = 1) => column' = "one_person"]_vars

\* C3 witness: an allele on both sample nodes of one individual has been
\* classified one_person.
C3_Witness ==
    /\ pc = "fill"
    /\ column = "one_person"
    /\ Cardinality(node_ids) = 2
    /\ Cardinality(individual_ids) = 1

\* C4 as stated: for every processed allele, one_region exactly when there are
\* two or more carriers all in one region, some_regions exactly when the carriers
\* span more than one but not all known regions.
C4_OneRegionSomeRegions ==
    [][Processing =>
        /\ column' = "one_region" <=>
              (Cardinality(Carriers) > 1 /\ Cardinality(CarrierRegions) = 1)
        /\ column' = "some_regions" <=>
              (/\ Cardinality(CarrierRegions) > 1
               /\ Cardinality(CarrierRegions) < Cardinality(KnownRegions))]_vars

\* C5: every processed allele adds exactly 1 to the total of its category and
\* nothing to the other totals; every row gains 1 in that category when its
\* individual is a carrier and nothing otherwise.
C5_TotalsAndCarriers ==
    [][Processing =>
        /\ \A c \in Columns :
              conn'.num_regions[c] = conn.num_regions[c] + One(c = column')
        /\ \A r \in conn.individual :
              RowOf(conn', r.id)[column'] =
                  r[column'] + One(r.id \in {sql_ids[i] : i \in Carriers})]_vars

\* C5 witness: an allele of two or more individuals, with a non-carrier in the
\* file, has been processed and its total stands at 1.
C5_Witness ==
    /\ pc = "fill"
    /\ column \in Columns
    /\ Cardinality(individual_ids) >= 2
    /\ Cardinality(conn.individual) > Cardinality(individual_ids)
    /\ conn.num_regions[column] = 1

\* C6: the step taken at the allele of index 0, or at an empty allele, changes
\* no row and no total.
C6_SkippedAlleles ==
    [][(pc = "fill" /\ ~AtEnd /\ (allele_index = 0 \/ Allele = "")) =>
        (conn' = conn /\ store' = store)]_vars

\* C6 witness: the scan has passed an empty allele that sample nodes carry, and
\* the totals are all 0.
C6_Witness ==
    /\ pc = "fill"
    /\ AtEnd
    /\ Len(ts.variants) = 1
    /\ ts.variants[1].alleles = <<"A", "">>
    /\ \E j \in DOMAIN ts.variants[1].genotypes : ts.variants[1].genotypes[j] = 1
    /\ \A c \in Columns : conn.num_regions[c] = 0

\* C7 as stated: a fill of the file of the last committed fill leaves the store
\* as that fill left it.
C7_NoDoubleCount ==
    [][(pc = "fill" /\ pc' = "idle" /\ ts = filled) => store' = store]_vars

\* C8 as stated: when fill dies inside a file after processing an allele of it,
\* the store holds what the fill had written up to the error.
C8_PartialUpdateKept ==
    [][(pc = "fill" /\ column \in Columns /\ pc' = "crashed") => store' = conn]_vars

\* C8 amended: when fill dies inside a file, the store is what it was before
\* that fill, and so is what the next connection reads.
C8_NothingKept ==
    [][(pc = "fill" /\ pc' = "crashed") => (store' = store /\ conn' = store)]_vars

\* C8 witness: fill has died after processing an allele of the file.
C8_Witness ==
    /\ pc = "crashed"
    /\ column \in Columns
    /\ store.individual # {}

\* C9: rows have distinct names and distinct ids, and a processed allele adds 1
\* to the row of each carrier's name and changes no other row.
C9_ByName ==
    [][/\ \A r1, r2 \in store.individual :
              (r1.name = r2.name \/ r1.id = r2.id) => r1 = r2
       /\ Processing =>
              \A r \in conn.individual : \A c \in Columns :
                  /\ RowOf(conn', r.id).name = r.name
                  /\ RowOf(conn', r.id)[c] =
                         r[c] + One(c = column' /\ r.name \in CarrierNames)]_vars

\* C9 witness: an allele has been processed for a carrier whose ts id differs
\* from the id of its row.
C9_Witness ==
    /\ pc = "fill"
    /\ column \in Columns
    /\ \E i \in individual_ids : sql_ids[i] # i

\* Nothing of the store a goes down or away in b, and rows are added to an
\* empty table only.
NoDecrease(a, b) ==
    /\ \A c \in Columns : b.num_regions[c] >= a.num_regions[c]
    /\ \A r \in a.individual : \E r2 \in b.individual :
          /\ r2.id = r.id /\ r2.name = r.name /\ r2.region = r.region
          /\ \A c \in Columns : r2[c] >= r[c]
    /\ a.individual # {} => Cardinality(b.individual) = Cardinality(a.individual)

\* C10: init leaves the fresh store; every other step lowers no counter and no
\* total, removes no row and adds rows to an empty table only.
C10_Monotone ==
    [][/\ init => store' = FreshStore
       /\ ~init => NoDecrease(store, store')]_vars

\* C10 witness: after two committed fills, a draw and a delete, the store holds
\* the counts of both fills.
C10_Witness ==
    /\ pc = "idle"
    /\ fills = 2
    /\ Total(store.num_regions, Columns) >= 4
    /\ image.variant_count >= 4
    /\ disk # Chromosomes

====
